---- MODULE Spec2Model ----
(***************************************************************************)
(* A model of ethsnarks' field arithmetic (field.py) and of the JubJub     *)
(* twisted Edwards curve in affine, projective and extended coordinates    *)
(* (jubjub.py).                                                            *)
(*                                                                         *)
(* Scaling.  The source works over the 254-bit prime SNARK_SCALAR_FIELD.   *)
(* The model keeps the coefficients JUBJUB_A = 168700 and JUBJUB_D =       *)
(* 168696 and the cofactor JUBJUB_C = 8 as they are in the source and      *)
(* replaces the field prime by 17, a prime with 17 = 1 (mod 4), as the     *)
(* source's prime, for which 168700 is a non-zero square and 168696 a      *)
(* non-square, as in the source's field (so the addition law is complete), *)
(* and for which the curve has 24 = 8 * 3 points: JUBJUB_ORDER = 24 and    *)
(* JUBJUB_L = 3, a prime, as in the source.  All formulas are those of     *)
(* the source, evaluated over the small field.                             *)
(*                                                                         *)
(* Specifications: FieldSpec drives the FQ class as a calculator,          *)
(* CompareSpec applies == and != to elements, Spec drives curve points     *)
(* through the operations of jubjub.py, MultSpec and MultLive run mult one *)
(* loop iteration per step, HashSpec runs from_hash.                       *)
(***************************************************************************)
EXTENDS Integers, Sequences, FiniteSets, TLC

VARIABLES acc, call, res, pt, mu, hs

vars == <<acc, call, res, pt, mu, hs>>

(***************************************************************************)
(* Bounds and constants                                                    *)
(***************************************************************************)
\* field.py:39 (scaled, see the header)
SNARK_SCALAR_FIELD == 17

\* largest absolute value of a plain integer operand handed to FQ
MaxInt == 8

\* the moduli FQ elements are built with: two primes and one composite
Moduli == {5, 6, 7}

IsPrime(m) == m > 1 /\ \A k \in 2..(m - 1) : m % k # 0

(***************************************************************************)
(* field.py: module functions                                              *)
(***************************************************************************)
RECURSIVE Log2Floor(_)
\* int(math.log(b, 2)) for b >= 1
Log2Floor(b) == IF b <= 1 THEN 0 ELSE 1 + Log2Floor(b \div 2)

\* b & (1 << k) != 0
BitSet(b, k) == (b \div (2 ^ k)) % 2 = 1

RECURSIVE powmod_loop(_, _, _, _, _)
powmod_loop(a, b, n, k, f) ==
    IF k < 0 THEN f
    ELSE LET f1 == (f * f) % n
             f2 == IF BitSet(b, k) THEN (f1 * a) % n ELSE f1
         IN  powmod_loop(a, b, n, k - 1, f2)

\* powmod(a, b, n), defined for b >= 1; math.log raises ValueError for b <= 0
powmod(a, b, n) == powmod_loop(a, b, n, Log2Floor(b), 1)

RECURSIVE inv_loop(_, _, _, _)
inv_loop(lm, low, hm, high) ==
    IF low > 1
    THEN LET r == high \div low
         IN  inv_loop(hm - lm * r, high - low * r, lm, low)
    ELSE lm

inv_plain(a, n) == IF a = 0 THEN 0 ELSE inv_loop(1, a % n, 0, n) % n

\* a mutation of inv: lm, hm = 0, 1 in place of 1, 0
inv_swapped(a, n) == IF a = 0 THEN 0 ELSE inv_loop(0, a % n, 1, n) % n

\* inv(a, n): extended Euclid
inv(a, n) == inv_plain(a, n)

RECURSIVE inv_iters(_, _)
\* the number of iterations of inv's while loop from (low, high)
inv_iters(low, high) ==
    IF low > 1 THEN 1 + inv_iters(high - low * (high \div low), low) ELSE 0

\* numbertheory.square_root_mod_prime(a, p): the roots it may return
SquareRoots(a, p) == {r \in 0..(p - 1) : (r * r) % p = a}

(***************************************************************************)
(* field.py: class FQ.  An element is [n, m]; an operand is an FQ, a plain *)
(* integer or a value of another type; a call returns a value or raises.   *)
(***************************************************************************)
FQ(n, m) == [m |-> m, n |-> n % m]

\* FQ.__init__ given an FQ instance: the value is taken as it is
FQ_of_FQ(e, m) == [m |-> m, n |-> e.n]

NoFQ == [m |-> 0, n |-> 0]

IntArg(v) == [m |-> 0, n |-> v, kind |-> "int"]
FQArg(e) == [m |-> e.m, n |-> e.n, kind |-> "FQ"]
StrArg == [m |-> 0, n |-> 0, kind |-> "str"]
NoArg == [m |-> 0, n |-> 0, kind |-> "none"]

Ret(e) == [err |-> "none", val |-> e]
Raise(e) == [err |-> e, val |-> NoFQ]

\* a mutation of _other_n: the modulus of the other element is not compared
other_n_unchecked(self, other) ==
    IF other.kind = "FQ" THEN [n |-> other.n, err |-> "none"]
    ELSE IF other.kind # "int" THEN [n |-> 0, err |-> "RuntimeError"]
    ELSE [n |-> other.n, err |-> "none"]

other_n_checked(self, other) ==
    IF other.kind = "FQ"
    THEN IF other.m # self.m THEN [n |-> 0, err |-> "RuntimeError"]
         ELSE [n |-> other.n, err |-> "none"]
    ELSE IF other.kind # "int" THEN [n |-> 0, err |-> "RuntimeError"]
    ELSE [n |-> other.n, err |-> "none"]

\* FQ._other_n
other_n(self, other) == other_n_checked(self, other)

FQ_add(self, other) ==
    LET on == other_n(self, other)
    IN  IF on.err # "none" THEN Raise(on.err)
        ELSE Ret(FQ((self.n + on.n) % self.m, self.m))

FQ_mul(self, other) ==
    LET on == other_n(self, other)
    IN  IF on.err # "none" THEN Raise(on.err)
        ELSE Ret(FQ((self.n * on.n) % self.m, self.m))

FQ_rmul(self, other) == FQ_mul(self, other)

FQ_radd(self, other) == FQ_add(self, other)

FQ_rsub(self, other) ==
    LET on == other_n(self, other)
    IN  IF on.err # "none" THEN Raise(on.err)
        ELSE Ret(FQ((on.n - self.n) % self.m, self.m))

FQ_sub(self, other) ==
    LET on == other_n(self, other)
    IN  IF on.err # "none" THEN Raise(on.err)
        ELSE Ret(FQ((self.n - on.n) % self.m, self.m))

FQ_inv(self) == Ret(FQ(inv(self.n, self.m), self.m))

\* FQ.sqrt with the root r the square root function returned
FQ_sqrt(self, r) == Ret(FQ(r, self.m))

FQ_exp(self, e) ==
    LET on == other_n(self, e)
    IN  IF on.err # "none" THEN Raise(on.err)
        ELSE IF on.n <= 0 THEN Raise("ValueError")
        ELSE Ret(FQ(powmod(self.n, on.n, self.m), self.m))

FQ_div(self, other) ==
    LET on == other_n(self, other)
    IN  IF on.err # "none" THEN Raise(on.err)
        ELSE Ret(FQ((self.n * inv(on.n, self.m)) % self.m, self.m))

FQ_rdiv(self, other) ==
    LET on == other_n(self, other)
    IN  IF on.err # "none" THEN Raise(on.err)
        ELSE Ret(FQ((inv(self.n, self.m) * on.n) % self.m, self.m))

RECURSIVE pow_int(_, _)
\* FQ.__pow__ for a plain integer exponent >= 0
pow_int(self, other) ==
    IF other = 0 THEN FQ(1, self.m)
    ELSE IF other = 1 THEN FQ(self.n, self.m)
    ELSE IF other % 2 = 0
         THEN pow_int(FQ_mul(self, FQArg(self)).val, other \div 2)
         ELSE FQ_mul(pow_int(FQ_mul(self, FQArg(self)).val, other \div 2),
                     FQArg(self)).val

\* FQ.__pow__: `other == 0` and `other == 1` are evaluated by the exponent's own
\* __eq__ when it is an FQ; `other % 2` raises TypeError for an FQ or a string;
\* a negative integer never reaches 0 or 1 (RecursionError)
FQ_pow(self, other) ==
    IF other.kind = "int"
    THEN IF other.n < 0 THEN Raise("RecursionError")
         ELSE Ret(pow_int(self, other.n))
    ELSE IF other.kind = "FQ" /\ other.n = 0 THEN Ret(FQ(1, self.m))
    ELSE IF other.kind = "FQ" /\ other.n = 1 THEN Ret(FQ(self.n, self.m))
    ELSE Raise("TypeError")

FQ_neg(self) == Ret(FQ(-self.n, self.m))

\* a float operand of integral value v, as in `x == 0.`
FloatArg(v) == [m |-> 0, n |-> v, kind |-> "float"]

\* what a comparison returns: a boolean, or the exception raised
RetBool(b) == [err |-> "none", val |-> b]
RaiseBool(e) == [err |-> e, val |-> FALSE]

\* line 186, `other == 0.`: numeric comparison for an int or a float; for an
\* FQ operand Python calls other.__eq__(0.), which replaces 0. by 0 and
\* returns other.n == 0; any other operand is unequal to 0.
equals_zero_float(other) ==
    IF other.kind \in {"int", "float", "FQ"} THEN other.n = 0 ELSE FALSE

\* lines 185-188
FQ_eq(self, other) ==
    LET other1 == IF equals_zero_float(other) THEN IntArg(0) ELSE other
        on == other_n(self, other1)
    IN  IF on.err # "none" THEN RaiseBool(on.err)
        ELSE RetBool(self.n = on.n)

\* lines 190-191
FQ_ne(self, other) ==
    LET r == FQ_eq(self, other)
    IN  IF r.err # "none" THEN r ELSE RetBool(~r.val)

(***************************************************************************)
(* The field calculator: acc is the element at hand, call the last call    *)
(* (operation, receiver, argument) and res what the call returned.         *)
(***************************************************************************)
Elements == {FQ(n, m) : n \in 0..6, m \in Moduli}

IntOperands == {IntArg(v) : v \in (-MaxInt)..MaxInt}

Operands == IntOperands \cup {FQArg(e) : e \in Elements} \cup {FQArg(acc), StrArg}

Done(op, self, arg, r) ==
    /\ call' = [self |-> self, op |-> op, arg |-> arg]
    /\ res' = r
    /\ acc' = IF r.err = "none" THEN r.val ELSE acc
    /\ UNCHANGED <<pt, mu, hs>>

FieldInit ==
    /\ acc = FQ(0, SNARK_SCALAR_FIELD)
    /\ call = [self |-> NoFQ, op |-> "none", arg |-> NoArg]
    /\ res = Ret(FQ(0, SNARK_SCALAR_FIELD))
    /\ pt = [rep |-> "idle"]
    /\ mu = [pc |-> "idle"]
    /\ hs = [pc |-> "idle"]

NewFromInt ==
    \E v \in (-MaxInt)..MaxInt, m \in Moduli :
        Done("init", NoFQ, [m |-> m, n |-> v, kind |-> "int"], Ret(FQ(v, m)))

NewFromFQ ==
    \E m \in Moduli :
        Done("init", NoFQ, [m |-> m, n |-> acc.n, kind |-> "FQ"], Ret(FQ_of_FQ(acc, m)))

Add == \E o \in Operands : Done("add", acc, o, FQ_add(acc, o))
Mul == \E o \in Operands : Done("mul", acc, o, FQ_mul(acc, o))
RMul == \E o \in Operands : Done("rmul", acc, o, FQ_rmul(acc, o))
RAdd == \E o \in Operands : Done("radd", acc, o, FQ_radd(acc, o))
RSub == \E o \in Operands : Done("rsub", acc, o, FQ_rsub(acc, o))
Sub == \E o \in Operands : Done("sub", acc, o, FQ_sub(acc, o))
Inv == Done("inv", acc, NoArg, FQ_inv(acc))
Sqrt ==
    /\ IsPrime(acc.m)
    /\ acc.n < acc.m
    /\ IF SquareRoots(acc.n, acc.m) = {}
       THEN Done("sqrt", acc, NoArg, Raise("SquareRootError"))
       ELSE \E r \in SquareRoots(acc.n, acc.m) : Done("sqrt", acc, NoArg, FQ_sqrt(acc, r))
Exp == \E o \in Operands : Done("exp", acc, o, FQ_exp(acc, o))
Div == \E o \in Operands : Done("div", acc, o, FQ_div(acc, o))
RDiv == \E o \in Operands : Done("rdiv", acc, o, FQ_rdiv(acc, o))
Pow == \E o \in Operands : Done("pow", acc, o, FQ_pow(acc, o))
Neg == Done("neg", acc, NoArg, FQ_neg(acc))

FieldNext ==
    \/ NewFromInt \/ NewFromFQ
    \/ Add \/ Mul \/ RMul \/ RAdd \/ RSub \/ Sub
    \/ Inv \/ Sqrt \/ Exp \/ Div \/ RDiv \/ Pow \/ Neg

(***************************************************************************)
(* Comparisons: acc is the receiver, an element FQ(n, m) built from an     *)
(* integer; the operand is an int, a float, a string or such an element.   *)
(***************************************************************************)
CompareOperands ==
    IntOperands \cup {FQArg(e) : e \in Elements}
        \cup {FloatArg(0), FloatArg(1), StrArg}

CompareInit ==
    /\ acc \in Elements
    /\ call = [self |-> NoFQ, op |-> "none", arg |-> NoArg]
    /\ res = RetBool(FALSE)
    /\ pt = [rep |-> "idle"]
    /\ mu = [pc |-> "idle"]
    /\ hs = [pc |-> "idle"]

Compared(op, arg, r) ==
    /\ call' = [self |-> acc, op |-> op, arg |-> arg]
    /\ res' = r
    /\ UNCHANGED <<acc, pt, mu, hs>>

Eq == \E o \in CompareOperands : Compared("eq", o, FQ_eq(acc, o))
Ne == \E o \in CompareOperands : Compared("ne", o, FQ_ne(acc, o))

CompareNext == Eq \/ Ne

(***************************************************************************)
(* jubjub.py: constants (scaled, see the header)                           *)
(***************************************************************************)
JUBJUB_Q == SNARK_SCALAR_FIELD
JUBJUB_ORDER == 24
JUBJUB_C == 8
JUBJUB_L == JUBJUB_ORDER \div JUBJUB_C
JUBJUB_A == 168700
JUBJUB_D == 168696

\* largest plain integer scalar handed to mult
MaxScalar == 9

\* cap of mult's iteration counter i
MaxIter == 6

(***************************************************************************)
(* Field expressions as jubjub.py writes them: FQ op FQ, int op FQ, FQ op  *)
(* int.  Every coordinate is an FQ of the default modulus.                 *)
(***************************************************************************)
Fq(n) == FQ(n, SNARK_SCALAR_FIELD)
a \oplus b == FQ_add(a, FQArg(b)).val
a \ominus b == FQ_sub(a, FQArg(b)).val
a \otimes b == FQ_mul(a, FQArg(b)).val
a \oslash b == FQ_div(a, FQArg(b)).val
IntTimes(k, a) == FQ_rmul(a, IntArg(k)).val
TimesInt(a, k) == FQ_mul(a, IntArg(k)).val
IntPlus(k, a) == FQ_radd(a, IntArg(k)).val
MinusInt(a, k) == FQ_sub(a, IntArg(k)).val
Negate(a) == FQ_neg(a).val
Inverse(a) == FQ_inv(a).val
FQ_one == Fq(1)

(***************************************************************************)
(* Points.  One record shape for the three classes; rep names the class.   *)
(* Point uses x, y; ProjPoint x, y, z; EtecPoint x, y, t, z.  A call that  *)
(* fails an assert yields Failed.                                          *)
(***************************************************************************)
Point(x, y) == [rep |-> "Point", x |-> x, y |-> y, t |-> Fq(0), z |-> Fq(1)]
ProjPoint(x, y, z) == [rep |-> "ProjPoint", x |-> x, y |-> y, t |-> Fq(0), z |-> z]
EtecPoint(x, y, t, z) == [rep |-> "EtecPoint", x |-> x, y |-> y, t |-> t, z |-> z]
Failed == [rep |-> "AssertionError", x |-> Fq(0), y |-> Fq(0), t |-> Fq(0), z |-> Fq(0)]

Point_infinity == Point(Fq(0), Fq(1))
ProjPoint_infinity == ProjPoint(Fq(0), Fq(1), Fq(1))
EtecPoint_infinity == EtecPoint(Fq(0), Fq(1), Fq(0), Fq(1))

\* ---- class Point ----
\* the x^2 that from_y hands to sqrt
from_y_xx(y) ==
    LET ysq == y \otimes y
    IN  MinusInt(ysq, 1) \oslash MinusInt(IntTimes(JUBJUB_D, ysq), JUBJUB_A)

\* Point.from_y with the root r that sqrt returned
Point_from_y(y, r) == Point(FQ_sqrt(from_y_xx(y), r).val, y)

Point_as_proj(self) == ProjPoint(self.x, self.y, Fq(1))

Point_as_etec(self) == EtecPoint(self.x, self.y, self.x \otimes self.y, Fq(1))

Point_as_point(self) == self

Point_neg(self) == Point(Negate(self.x), self.y)

Point_valid(self) ==
    LET xsq == self.x \otimes self.x
        ysq == self.y \otimes self.y
    IN  (IntTimes(JUBJUB_A, xsq) \oplus ysq)
            = IntPlus(1, (IntTimes(JUBJUB_D, xsq) \otimes ysq))

Point_add(self, other) ==
    IF self.x.n = 0 /\ self.y.n = 0 THEN other
    ELSE LET u1 == self.x
             v1 == self.y
             u2 == other.x
             v2 == other.y
             dd == (((IntTimes(JUBJUB_D, u1) \otimes u2) \otimes v1) \otimes v2)
             u3 == ((u1 \otimes v2) \oplus (v1 \otimes u2)) \oslash (FQ_one \oplus dd)
             v3 == ((v1 \otimes v2) \ominus ((IntTimes(JUBJUB_A, u1)) \otimes u2))
                       \oslash (FQ_one \ominus dd)
         IN  Point(u3, v3)

\* ---- class ProjPoint ----
ProjPoint_rescale(self) == ProjPoint(self.x \oslash self.z, self.y \oslash self.z, Fq(1))

ProjPoint_as_proj(self) == self

ProjPoint_as_etec_xy(self) == EtecPoint(self.x, self.y, self.x \otimes self.y, self.z)

\* ProjPoint.as_etec: (X, Y, Z) -> (X, Y, X*Y, Z)
ProjPoint_as_etec(self) == ProjPoint_as_etec_xy(self)

ProjPoint_as_point(self) ==
    IF self.z.n = 0 THEN Failed
    ELSE LET inv_z == Inverse(self.z)
         IN  Point(self.x \otimes inv_z, self.y \otimes inv_z)

ProjPoint_neg(self) == ProjPoint(Negate(self.x), self.y, self.z)

ProjPoint_add(self, other) ==
    IF self = ProjPoint_infinity THEN other
    ELSE LET a == self.z \otimes other.z
             b == a \otimes a
             c == self.x \otimes other.x
             d == self.y \otimes other.y
             t0 == c \otimes d
             e == IntTimes(JUBJUB_D, t0)
             f == b \ominus e
             g == b \oplus e
             t1 == self.x \oplus self.y
             t2 == other.x \oplus other.y
             t3 == t1 \otimes t2
             t4 == t3 \ominus c
             t5 == t4 \ominus d
             t6 == f \otimes t5
             x3 == a \otimes t6
             t7 == IntTimes(JUBJUB_A, c)
             t8 == d \ominus t7
             t9 == g \otimes t8
             y3 == a \otimes t9
             z3 == f \otimes g
         IN  ProjPoint(x3, y3, z3)

ProjPoint_double_bbjlp(self) ==
    IF self = ProjPoint_infinity THEN ProjPoint_infinity
    ELSE LET t0 == self.x \oplus self.y
             b == t0 \otimes t0
             c == self.x \otimes self.x
             d == self.y \otimes self.y
             e == IntTimes(JUBJUB_A, c)
             f == e \oplus d
             h == self.z \otimes self.z
             t1 == IntTimes(2, h)
             j == f \ominus t1
             t2 == b \ominus c
             t3 == t2 \ominus d
             x3 == t3 \otimes j
             t4 == e \ominus d
             y3 == f \otimes t4
             z3 == f \otimes j
         IN  ProjPoint(x3, y3, z3)

\* ProjPoint.double (dbl-2008-bbjlp)
ProjPoint_double(self) == ProjPoint_double_bbjlp(self)

\* ---- class EtecPoint ----
EtecPoint_as_etec(self) == self

EtecPoint_as_point(self) ==
    LET inv_z == Inverse(self.z)
    IN  Point(self.x \otimes inv_z, self.y \otimes inv_z)

EtecPoint_as_proj(self) == ProjPoint(self.x, self.y, self.z)

EtecPoint_neg_hwcd(self) == EtecPoint(Negate(self.x), self.y, Negate(self.t), self.z)

\* EtecPoint.neg: -(X : Y : T : Z) = (-X : Y : -T : Z)
EtecPoint_neg(self) == EtecPoint_neg_hwcd(self)

\* a mutation of EtecPoint.double: c = z*z in place of 2*z*z
EtecPoint_double_c(self) ==
    IF self = EtecPoint_infinity THEN EtecPoint_infinity
    ELSE LET a == self.x \otimes self.x
             b == self.y \otimes self.y
             c == self.z \otimes self.z
             d == IntTimes(JUBJUB_A, a)
             t1 == self.x \oplus self.y
             e == ((t1 \otimes t1) \ominus a) \ominus b
             g == d \oplus b
             f == g \ominus c
             h == d \ominus b
         IN  EtecPoint(e \otimes f, g \otimes h, e \otimes h, f \otimes g)

EtecPoint_double_hwcd(self) ==
    IF self = EtecPoint_infinity THEN EtecPoint_infinity
    ELSE LET a == self.x \otimes self.x
             b == self.y \otimes self.y
             t0 == self.z \otimes self.z
             c == TimesInt(t0, 2)
             d == IntTimes(JUBJUB_A, a)
             t1 == self.x \oplus self.y
             t2 == t1 \otimes t1
             t3 == t2 \ominus a
             e == t3 \ominus b
             g == d \oplus b
             f == g \ominus c
             h == d \ominus b
         IN  EtecPoint(e \otimes f, g \otimes h, e \otimes h, f \otimes g)

\* EtecPoint.double (dbl-2008-hwcd)
EtecPoint_double(self) == EtecPoint_double_hwcd(self)

EtecPoint_add(self, other) ==
    IF self = EtecPoint_infinity THEN other
    ELSE IF self.z.n = 0 \/ other.z.n = 0 THEN Failed
    ELSE LET x1x2 == self.x \otimes other.x
             y1y2 == self.y \otimes other.y
             dt1t2 == IntTimes(JUBJUB_D, self.t) \otimes other.t
             z1z2 == self.z \otimes other.z
             e == (((self.x \oplus self.y) \otimes (other.x \oplus other.y)) \ominus x1x2)
                      \ominus y1y2
             f == z1z2 \ominus dt1t2
             g == z1z2 \oplus dt1t2
             h == y1y2 \ominus IntTimes(JUBJUB_A, x1x2)
         IN  EtecPoint(e \otimes f, g \otimes h, e \otimes h, f \otimes g)

(***************************************************************************)
(* Dispatch on the class of the receiver; a failed call stays failed.      *)
(***************************************************************************)
IsPoint(p) == p.rep \in {"Point", "ProjPoint", "EtecPoint"}

infinity(rep) ==
    CASE rep = "Point" -> Point_infinity
      [] rep = "ProjPoint" -> ProjPoint_infinity
      [] rep = "EtecPoint" -> EtecPoint_infinity

add(self, other) ==
    IF ~IsPoint(self) THEN self
    ELSE IF ~IsPoint(other) THEN other
    ELSE IF self.rep # other.rep THEN Failed
    ELSE CASE self.rep = "Point" -> Point_add(self, other)
           [] self.rep = "ProjPoint" -> ProjPoint_add(self, other)
           [] self.rep = "EtecPoint" -> EtecPoint_add(self, other)

\* AbstractCurveOps.double is add(self); ProjPoint and EtecPoint override it
double(self) ==
    IF ~IsPoint(self) THEN self
    ELSE CASE self.rep = "Point" -> add(self, self)
           [] self.rep = "ProjPoint" -> ProjPoint_double(self)
           [] self.rep = "EtecPoint" -> EtecPoint_double(self)

neg(self) ==
    IF ~IsPoint(self) THEN self
    ELSE CASE self.rep = "Point" -> Point_neg(self)
           [] self.rep = "ProjPoint" -> ProjPoint_neg(self)
           [] self.rep = "EtecPoint" -> EtecPoint_neg(self)

as_point(self) ==
    IF ~IsPoint(self) THEN self
    ELSE CASE self.rep = "Point" -> Point_as_point(self)
           [] self.rep = "ProjPoint" -> ProjPoint_as_point(self)
           [] self.rep = "EtecPoint" -> EtecPoint_as_point(self)

as_proj(self) ==
    IF ~IsPoint(self) THEN self
    ELSE CASE self.rep = "Point" -> Point_as_proj(self)
           [] self.rep = "ProjPoint" -> ProjPoint_as_proj(self)
           [] self.rep = "EtecPoint" -> EtecPoint_as_proj(self)

as_etec(self) ==
    IF ~IsPoint(self) THEN self
    ELSE CASE self.rep = "Point" -> Point_as_etec(self)
           [] self.rep = "ProjPoint" -> ProjPoint_as_etec(self)
           [] self.rep = "EtecPoint" -> EtecPoint_as_etec(self)

\* AbstractCurveOps.rescale returns self; ProjPoint overrides it
rescale(self) ==
    IF ~IsPoint(self) THEN self
    ELSE IF self.rep = "ProjPoint" THEN ProjPoint_rescale(self) ELSE self

\* valid(): "True", "False", or the assert of ProjPoint.as_point failing
valid(self) ==
    LET p == as_point(self)
    IN  IF ~IsPoint(p) THEN p.rep
        ELSE IF Point_valid(p) THEN "True" ELSE "False"

RECURSIVE mult_loop(_, _, _)
\* the while loop of AbstractCurveOps.mult, for scalar >= 0
mult_loop(p, a, scalar) ==
    IF scalar = 0 THEN a
    ELSE mult_loop(double(p),
                   IF scalar % 2 # 0 THEN add(a, p) ELSE a,
                   scalar \div 2)

\* AbstractCurveOps.mult for a plain integer scalar >= 0
mult(self, scalar) ==
    IF ~IsPoint(self) THEN self ELSE mult_loop(self, infinity(self.rep), scalar)

RECURSIVE from_hash_y(_)
\* the retry loop of Point.from_hash: the first y, counting up, that from_y accepts
from_hash_y(y) ==
    IF SquareRoots(from_y_xx(y).n, JUBJUB_Q) # {} THEN y
    ELSE from_hash_y(FQ_add(y, IntArg(1)).val)

(***************************************************************************)
(* The curve machine: pt is the point at hand; every operation of the      *)
(* three classes replaces it by its result.                                *)
(***************************************************************************)
FieldElements == {Fq(n) : n \in 0..(JUBJUB_Q - 1)}

\* the points a caller starts from: the affine points on the curve
CurvePoints == {p \in {Point(x, y) : x \in FieldElements, y \in FieldElements} : Point_valid(p)}

Reps == {"Point", "ProjPoint", "EtecPoint"}

\* q.as_point(), q.as_proj() or q.as_etec() by the name of the class
Convert(q, rep) ==
    CASE rep = "Point" -> as_point(q)
      [] rep = "ProjPoint" -> as_proj(q)
      [] rep = "EtecPoint" -> as_etec(q)

\* the other operand of add: a curve point in the receiver's class, as converted
\* from affine or as doubled there, or the receiver itself
Others(self) ==
    {Convert(q, self.rep) : q \in CurvePoints}
        \cup {double(Convert(q, self.rep)) : q \in CurvePoints} \cup {self}

Init ==
    /\ acc = NoFQ
    /\ call = [op |-> "idle"]
    /\ res = [err |-> "idle"]
    /\ pt = Point_infinity
    /\ mu = [pc |-> "idle"]
    /\ hs = [pc |-> "idle"]

PDone(r) == pt' = r /\ UNCHANGED <<acc, call, res, mu, hs>>

NewPoint == \E p \in CurvePoints : PDone(p)
Infinity == \E rep \in Reps : PDone(infinity(rep))
FromY ==
    \E y \in FieldElements : \E r \in SquareRoots(from_y_xx(y).n, JUBJUB_Q) :
        PDone(Point_from_y(y, r))
PNeg == IsPoint(pt) /\ PDone(neg(pt))
PAdd == IsPoint(pt) /\ \E o \in Others(pt) : PDone(add(pt, o))
PDouble == IsPoint(pt) /\ PDone(double(pt))
PMult == IsPoint(pt) /\ \E n \in 0..MaxScalar : PDone(mult(pt, n))
AsPoint == IsPoint(pt) /\ PDone(as_point(pt))
AsProj == IsPoint(pt) /\ PDone(as_proj(pt))
AsEtec == IsPoint(pt) /\ PDone(as_etec(pt))
Rescale == IsPoint(pt) /\ PDone(rescale(pt))

Next ==
    \/ NewPoint \/ Infinity \/ FromY
    \/ PNeg \/ PAdd \/ PDouble \/ PMult
    \/ AsPoint \/ AsProj \/ AsEtec \/ Rescale

Spec == Init /\ [][Next]_vars

(***************************************************************************)
(* AbstractCurveOps.mult, one loop iteration per step.  mu holds the call  *)
(* (self, arg) and the locals p, a, scalar, i.                             *)
(***************************************************************************)
\* the moduli mult accepts for an FQ scalar
ScalarModuli == {SNARK_SCALAR_FIELD, JUBJUB_ORDER, JUBJUB_L}

ScalarArgs ==
    {IntArg(v) : v \in (-MaxScalar)..MaxScalar}
        \cup {FQArg(FQ(v, m)) : v \in 0..2, m \in ScalarModuli \cup {5}}

MultInit ==
    /\ acc = NoFQ
    /\ call = [op |-> "idle"]
    /\ res = [err |-> "idle"]
    /\ pt = [rep |-> "idle"]
    /\ hs = [pc |-> "idle"]
    /\ \E q \in CurvePoints, rep \in Reps, s \in ScalarArgs :
          mu = [a |-> Convert(q, rep), p |-> Convert(q, rep), self |-> Convert(q, rep),
                arg |-> s, pc |-> "call", scalar |-> 0, i |-> 0]

MDone(m) == mu' = m /\ UNCHANGED <<acc, call, res, pt, hs>>

\* lines 80-86: the scalar is unwrapped, p, a and i are set
MultEnter ==
    /\ mu.pc = "call"
    /\ IF mu.arg.kind = "FQ" /\ mu.arg.m \notin ScalarModuli
       THEN MDone([mu EXCEPT !.pc = "ValueError"])
       ELSE MDone([mu EXCEPT !.pc = "loop", !.scalar = mu.arg.n, !.p = mu.self,
                             !.a = infinity(mu.self.rep), !.i = 0])

\* lines 87-92: one iteration of the while loop
MultIter ==
    /\ mu.pc = "loop"
    /\ mu.scalar # 0
    /\ mu.i < MaxIter
    /\ LET a1 == IF mu.scalar % 2 # 0 THEN add(mu.a, mu.p) ELSE mu.a
           p1 == double(mu.p)
       IN  IF ~IsPoint(a1) \/ ~IsPoint(p1)
           THEN MDone([mu EXCEPT !.pc = "AssertionError"])
           ELSE MDone([mu EXCEPT !.a = a1, !.p = p1,
                                 !.scalar = mu.scalar \div 2, !.i = mu.i + 1])

\* line 93: return a
MultReturn ==
    /\ mu.pc = "loop"
    /\ mu.scalar = 0
    /\ MDone([mu EXCEPT !.pc = "done"])

MultNext == MultEnter \/ MultIter \/ MultReturn

MultSpec == MultInit /\ [][MultNext]_vars

\* a caller hands a point and a scalar to mult
MultCall ==
    /\ mu.pc = "idle"
    /\ \E q \in CurvePoints, rep \in Reps, s \in ScalarArgs :
          MDone([a |-> Convert(q, rep), p |-> Convert(q, rep), self |-> Convert(q, rep),
                 arg |-> s, pc |-> "call", scalar |-> 0, i |-> 0])

MultIdle ==
    /\ acc = NoFQ
    /\ call = [op |-> "idle"]
    /\ res = [err |-> "idle"]
    /\ pt = [rep |-> "idle"]
    /\ mu = [pc |-> "idle"]
    /\ hs = [pc |-> "idle"]

\* lines 88-91: what one pass of the loop makes of the locals a, p and scalar
mult_pass(m) ==
    LET a1 == IF m.scalar % 2 # 0 THEN add(m.a, m.p) ELSE m.a
        p1 == double(m.p)
    IN  IF ~IsPoint(a1) \/ ~IsPoint(p1)
        THEN [m EXCEPT !.pc = "AssertionError"]
        ELSE [m EXCEPT !.a = a1, !.p = p1, !.scalar = m.scalar \div 2]

\* lines 87-92 once i has reached MaxIter: the same pass, with i kept at
\* MaxIter (i then stands for "MaxIter or more"; mult never reads i).  When
\* the pass leaves a, p and scalar as they are (a + p = a, 2p = p,
\* -1 // 2 = -1), the step leaves every variable as it is.
MultIterOn ==
    /\ mu.pc = "loop"
    /\ mu.scalar # 0
    /\ mu.i = MaxIter
    /\ MDone(mult_pass(mu))

MultLiveNext == MultCall \/ MultEnter \/ MultIter \/ MultIterOn \/ MultReturn

\* ENABLED <<MultIter>>_vars: the guard of MultIter, whose every step changes i
\* or pc
MultIterEnabled == mu.pc = "loop" /\ mu.scalar # 0 /\ mu.i < MaxIter

\* ENABLED <<MultIterOn>>_vars: the guard of MultIterOn and a pass that changes
\* a, p or scalar
MultIterOnEnabled ==
    /\ mu.pc = "loop"
    /\ mu.scalar # 0
    /\ mu.i = MaxIter
    /\ mult_pass(mu) # mu

\* Once called, the interpreter keeps running mult: weak fairness of each
\* step.  The last two conjuncts are WF_vars(MultIter) and WF_vars(MultIterOn)
\* written out.  A call whose passes leave the locals as they are stays in the
\* loop for ever by steps that change nothing.
MultLive ==
    /\ MultIdle
    /\ [][MultLiveNext]_vars
    /\ WF_vars(MultEnter)
    /\ WF_vars(MultReturn)
    /\ ([]<>(~MultIterEnabled) \/ []<><<MultIter>>_vars)
    /\ ([]<>(~MultIterOnEnabled) \/ []<><<MultIterOn>>_vars)

(***************************************************************************)
(* Point.from_hash after the digest is taken, one step per statement.      *)
(* hs holds y0 = FQ(int.from_bytes(digest)), the y being tried and p.      *)
(***************************************************************************)
HashInit ==
    /\ acc = NoFQ
    /\ call = [op |-> "idle"]
    /\ res = [err |-> "idle"]
    /\ pt = [rep |-> "idle"]
    /\ mu = [pc |-> "idle"]
    /\ \E y \in FieldElements :
          hs = [p |-> Point_infinity, pc |-> "from_y", y |-> y, y0 |-> y]

HDone(h) == hs' = h /\ UNCHANGED <<acc, call, res, pt, mu>>

\* lines 140-144: from_y raised SquareRootError, y += 1
HashRetry ==
    /\ hs.pc = "from_y"
    /\ SquareRoots(from_y_xx(hs.y).n, JUBJUB_Q) = {}
    /\ HDone([hs EXCEPT !.y = FQ_add(hs.y, IntArg(1)).val])

\* line 141: from_y returned a point
HashRecover ==
    /\ hs.pc = "from_y"
    /\ \E r \in SquareRoots(from_y_xx(hs.y).n, JUBJUB_Q) :
          HDone([hs EXCEPT !.pc = "cofactor", !.p = Point_from_y(hs.y, r)])

\* line 147: p = p * JUBJUB_C
HashCofactor ==
    /\ hs.pc = "cofactor"
    /\ HDone([hs EXCEPT !.pc = "verify", !.p = mult(hs.p, JUBJUB_C)])

\* lines 150-153: the subgroup check, then return p
HashVerify ==
    /\ hs.pc = "verify"
    /\ IF mult(hs.p, JUBJUB_L) # Point_infinity
       THEN HDone([hs EXCEPT !.pc = "RuntimeError"])
       ELSE HDone([hs EXCEPT !.pc = "return"])

HashNext == HashRetry \/ HashRecover \/ HashCofactor \/ HashVerify

HashSpec == HashInit /\ [][HashNext]_vars

FieldSpec == FieldInit /\ [][FieldNext]_vars

CompareSpec == CompareInit /\ [][CompareNext]_vars

(***************************************************************************)
(* Properties                                                              *)
(***************************************************************************)
RECURSIVE NFoldSum(_, _)
\* p + p + ... + p, n times, by affine add, from the identity
NFoldSum(p, n) == IF n = 0 THEN Point_infinity ELSE Point_add(NFoldSum(p, n - 1), p)

\* C1: when mult returns for a plain integer scalar n >= 0 and a receiver that is
\* a curve point p in any of the three classes, the result taken to affine is the
\* n-fold affine sum of p, the same for p.mult(n), p.as_proj().mult(n) and
\* p.as_etec().mult(n); mult(0) is the identity of the receiver's class.
MultAgrees ==
    (mu.pc = "done" /\ mu.arg.kind = "int" /\ mu.arg.n >= 0) =>
        LET p == as_point(mu.self)
            n == mu.arg.n
        IN  /\ as_point(mu.a) = NFoldSum(p, n)
            /\ mu.a = mult(mu.self, n)
            /\ mult(p, n) = NFoldSum(p, n)
            /\ as_point(mult(as_proj(p), n)) = NFoldSum(p, n)
            /\ as_point(mult(as_etec(p), n)) = NFoldSum(p, n)
            /\ n = 0 => mu.a = infinity(mu.self.rep)

MultAgreesWitness ==
    /\ mu.pc = "done"
    /\ mu.self.rep = "EtecPoint"
    /\ mu.arg = IntArg(MaxScalar)
    /\ mu.i > 2
    /\ as_point(mu.a) \notin {Point_infinity, as_point(mu.self)}

\* C2: for a valid point p of any class (p.valid() is true), p + identity and
\* identity + p are p, p + (-p) is the identity (all taken to affine), and
\* -identity = identity.
GroupLaws ==
    (IsPoint(pt) /\ valid(pt) = "True") =>
        LET id == infinity(pt.rep)
        IN  /\ as_point(add(pt, id)) = as_point(pt)
            /\ as_point(add(id, pt)) = as_point(pt)
            /\ as_point(add(pt, neg(pt))) = Point_infinity
            /\ neg(id) = id

\* C3: for a valid projective or extended point p (p.valid() is true), the
\* identity included, p.double() and p.add(p) are the same point in affine, the
\* affine double of p.
DoubleIsAdd ==
    (pt.rep \in {"ProjPoint", "EtecPoint"} /\ valid(pt) = "True") =>
        /\ as_point(double(pt)) = as_point(add(pt, pt))
        /\ as_point(double(pt)) = Point_add(as_point(pt), as_point(pt))

\* C4: every extended point reached from a valid affine point by conversions and
\* operations satisfies T*Z = X*Y.
EtecInvariant ==
    (pt.rep = "EtecPoint") => (pt.t \otimes pt.z) = (pt.x \otimes pt.y)

\* C5: every point reached from valid points by neg, add, double, mult and the
\* conversions has valid() true, and taking it to a class and back to affine
\* gives the same affine value.
ValidityPreserved ==
    (IsPoint(pt)) =>
        /\ valid(pt) = "True"
        /\ \A rep \in Reps : as_point(Convert(pt, rep)) = as_point(pt)

\* C6: a point returned by from_hash is on the curve, is taken to the identity by
\* L, and is not the identity (0, 1).
HashPrimeOrder ==
    (hs.pc = "return") =>
        /\ Point_valid(hs.p)
        /\ mult(hs.p, JUBJUB_L) = Point_infinity
        /\ hs.p # Point_infinity

\* C7: every FQ a call returns has 0 <= n < m.
FQInRange ==
    (res.err = "none") => (0 <= res.val.n /\ res.val.n < res.val.m)

BinaryOps == {"add", "sub", "mul", "div", "exp", "radd", "rsub", "rmul", "rdiv"}

\* C8: add, sub, mul, division, exp and the reflected forms raise RuntimeError,
\* and return nothing, when the other operand is an FQ of another modulus or is
\* neither an integer nor an FQ.
MismatchRejected ==
    (call.op \in BinaryOps
       /\ (call.arg.kind = "str" \/ (call.arg.kind = "FQ" /\ call.arg.m # call.self.m))) =>
        (res.err = "RuntimeError" /\ acc = call.self)

MismatchRejectedWitness ==
    /\ call.op = "rdiv"
    /\ call.arg.kind = "FQ"
    /\ call.arg.m # call.self.m
    /\ call.arg.n = call.self.n
    /\ res.err = "RuntimeError"

\* C9: for a prime modulus and 1 <= a <= m - 1 the loop of inv ends and
\* a.inv() * a is 1; inv of the zero element is 0; x / y with y the zero element
\* returns 0.
InverseLaw ==
    /\ (call.op = "inv" /\ IsPrime(call.self.m)
          /\ 1 <= call.self.n /\ call.self.n <= call.self.m - 1) =>
          /\ res.err = "none"
          /\ FQ_mul(res.val, FQArg(call.self)).val.n = 1
          /\ inv_iters(call.self.n % call.self.m, call.self.m) <= call.self.m
    /\ (call.op = "inv" /\ call.self.n = 0) => res = Ret(FQ(0, call.self.m))
    /\ (call.op = "div" /\ call.arg.kind = "FQ" /\ call.arg.m = call.self.m
          /\ call.arg.n = 0) => res = Ret(FQ(0, call.self.m))

InverseLawWitness ==
    /\ call.op = "inv"
    /\ call.self = FQ(3, 7)
    /\ res = Ret(FQ(5, 7))

RECURSIVE Power(_, _, _)
\* a^e mod m as e multiplications, with a^0 = 1 for every a
Power(a, e, m) == IF e = 0 THEN 1 % m ELSE (Power(a, e - 1, m) * a) % m

\* C10: exp and ** with a plain integer exponent e >= 0 return self^e mod m;
\* e = 0 gives 1 and e = 1 gives self.
ExpIsPower ==
    (call.op \in {"exp", "pow"} /\ call.arg.kind = "int" /\ call.arg.n >= 0) =>
        res = Ret(FQ(Power(call.self.n, call.arg.n, call.self.m), call.self.m))

\* C11: two elements compare equal iff their reduced values are equal and their
\* moduli are equal (elements of different fields, their zero elements
\* included, are never reported equal); an element compared with the plain
\* value 0 is equal exactly when its reduced value is 0.  != is the negation.
FQEquality ==
    LET reported == res.err = "none" /\ res.val = (call.op = "eq")
        same == /\ call.self.n % call.self.m = call.arg.n % call.arg.m
                /\ call.self.m = call.arg.m
    IN  /\ (call.op \in {"eq", "ne"} /\ call.arg.kind = "FQ") =>
              (reported <=> same)
        /\ (call.op \in {"eq", "ne"} /\ call.arg \in {IntArg(0), FloatArg(0)}) =>
              /\ res.err = "none"
              /\ reported <=> (call.self.n % call.self.m = 0)

RECURSIVE BitLength(_)
\* the number of binary digits of n >= 0
BitLength(n) == IF n = 0 THEN 0 ELSE 1 + BitLength(n \div 2)

\* C12: mult returns for every plain integer scalar, negative ones included:
\* scalar, halved with floor division on each iteration, reaches 0; for a
\* scalar n > 0 it returns after exactly bit-length(n) iterations.
MultTerminates ==
    /\ [](( mu.pc = "done" /\ mu.arg.kind = "int" /\ mu.arg.n > 0) =>
              mu.i = BitLength(mu.arg.n))
    /\ (mu.pc = "call" /\ mu.arg.kind = "int") ~> (mu.pc = "done")

====
